---- MODULE Spec2Model ----
(***************************************************************************)
(* Model of the MXNet glue of MobulaOP                                     *)
(* (src/mobula/cpp/include/glue/mxnet_glue.h): the dependency deriver      *)
(* DeduplicateNDArrayHandle, the invocation functor TVMFunctor (Init, Run, *)
(* destructor), the async wrapper WrapAsyncCall with the engine            *)
(* trampolines, and the named-function registry GetMXNetFunc.              *)
(***************************************************************************)
EXTENDS Integers, Sequences, FiniteSets, TLC

(***************************************************************************)
(* Bounds of the model.                                                    *)
(***************************************************************************)
\* longest provisional read list handed to the dependency deriver
MaxReads == 5
\* longest provisional write list handed to the dependency deriver
MaxWrites == 2
\* longest sequence of GetMXNetFunc calls
MaxRegCalls == 3

\* longest sequence of GetMXNetFunc calls begun by concurrent callers
MaxConcCalls == 2
\* longest argument list of a wrapped call
MaxArgs == 2
\* longest argument list and const-position array of a wrapped call followed
\* only up to its push_sync
MaxCallArgs == 3
MaxConst == 2
MaxTasks == 3

\* type codes of the packed-call ABI used by the glue
kTVMType == 5
kArrayHandle == 7
kTVMNDArrayTypeCode == 19
\* Context::DeviceType
kCPU == 1
kGPU == 2
kCPUPinned == 3
\* DLDeviceType passed to the stream setter
kDLGPU == 2
\* the value Init gives ctx_.dev_id before it has seen a tensor
UnsetDevId == -1

\* handle values are pointers: only their identity and their order matter
Handles == {1, 2, 3, 4}

\* operator names, user functions and const-position arrays given to GetMXNetFunc
Names == {"conv_fwd", "im2col"}
UserFuncs == {"f1", "f2"}
ConstLocs == {<<>>, <<0>>, <<1, 0>>}
\* threads calling GetMXNetFunc concurrently
RegThreads == {"t1", "t2"}

\* the host's tensors (NDArrayHandle values given by the caller)
Tensors == {11, 12}
\* the device contexts the host reports for a tensor
Contexts ==
    {[dev_type |-> kCPU, dev_id |-> 0], [dev_type |-> kGPU, dev_id |-> 0],
     [dev_type |-> kGPU, dev_id |-> 1], [dev_type |-> kCPUPinned, dev_id |-> 0]}
\* what the bytes of a never-assigned ctx_.dev_type may hold
UninitDevTypes == {0, kCPU, kGPU, kCPUPinned}
\* payload of a non-tensor argument
PodValue == 7
\* type codes of non-tensor arguments: the last POD tag, the sentinel, above it
PodCodes == {kTVMType - 1, kTVMType, kTVMType + 1}
\* one slot of a packed argument list: values[i] and type_codes[i]
ArgSlots ==
    {[code |-> kTVMNDArrayTypeCode, v |-> t] : t \in Tensors}
        \cup {[code |-> c, v |-> PodValue] : c \in PodCodes}
\* engine worker threads, the streams the engine hands to a GPU task, null
Workers == {"w1", "w2"}
Streams == {1, 2}
NullStream == 0
\* status values of the host push_sync
PushStatuses == {0, -1}

\* all sequences over S of length at most n
RECURSIVE SeqsUpTo(_, _)
SeqsUpTo(S, n) ==
    IF n = 0 THEN {<<>>}
    ELSE LET shorter == SeqsUpTo(S, n - 1)
         IN  shorter \cup {Append(s, x) : s \in {t \in shorter : Len(t) = n - 1}, x \in S}

\* the set of elements of a sequence
Range(s) == {s[i] : i \in 1..Len(s)}

(***************************************************************************)
(* std::sort and std::unique + resize, as used by the deriver and by       *)
(* WrapAsyncCall.                                                          *)
(***************************************************************************)
\* insert x into the ascending sequence s, keeping it ascending
RECURSIVE SortedInsert(_, _)
SortedInsert(s, x) ==
    IF s = <<>> THEN <<x>>
    ELSE IF x <= Head(s) THEN <<x>> \o s
    ELSE <<Head(s)>> \o SortedInsert(Tail(s), x)

\* std::sort(begin, end): ascending order, duplicates kept
RECURSIVE StdSort(_)
StdSort(s) ==
    IF s = <<>> THEN <<>>
    ELSE SortedInsert(StdSort(Tail(s)), Head(s))

\* v.resize(std::unique(v.begin(), v.end()) - v.begin()):
\* drops every element equal to its predecessor
RECURSIVE StdUnique(_)
StdUnique(s) ==
    IF Len(s) <= 1 THEN s
    ELSE IF s[1] = s[2] THEN StdUnique(Tail(s))
    ELSE <<s[1]>> \o StdUnique(Tail(s))

\* mutant: the write cursor is never advanced
AdvanceWitStuck(write, wit, x) == wit

\* the while loop of line 185: advance wit while *wit < *rit
RECURSIVE AdvanceWit(_, _, _)
AdvanceWit(write, wit, x) ==
    IF wit <= Len(write) /\ write[wit] < x
    THEN AdvanceWit(write, wit + 1, x)
    ELSE wit

\* mutant: the final resize cuts one element too many
RECURSIVE MergeLoopShort(_, _, _, _, _)
MergeLoopShort(read, write, rit, wit, rtop) ==
    IF rit > Len(read) THEN SubSeq(read, 1, rtop - 2)
    ELSE LET w == AdvanceWit(write, wit, read[rit])
         IN  IF w > Len(write) \/ write[w] # read[rit]
             THEN MergeLoopShort([read EXCEPT ![rtop] = read[rit]], write, rit + 1, w, rtop + 1)
             ELSE MergeLoopShort(read, write, rit + 1, w, rtop)

\* the for loop of lines 184-190, in place on read: rit, wit and rtop are
\* 1-based positions; the result is read resized to rtop - begin
RECURSIVE MergeLoop(_, _, _, _, _)
MergeLoop(read, write, rit, wit, rtop) ==
    IF rit > Len(read) THEN SubSeq(read, 1, rtop - 1)
    ELSE LET w == AdvanceWit(write, wit, read[rit])
         IN  IF w > Len(write) \/ write[w] # read[rit]
             THEN MergeLoop([read EXCEPT ![rtop] = read[rit]], write, rit + 1, w, rtop + 1)
             ELSE MergeLoop(read, write, rit + 1, w, rtop)

\* DeduplicateNDArrayHandle(read_nds, write_nds): the two vectors afterwards
DeduplicateNDArrayHandle(rd, wr) ==
    LET w == StdUnique(StdSort(wr))
        r == StdUnique(StdSort(rd))
    IN  [read |-> MergeLoop(r, w, 1, 1, 1), write |-> w]

(***************************************************************************)
(* WrapAsyncCall and the registry's pure parts.                            *)
(***************************************************************************)
\* WrapAsyncCall(pfunc, set_stream, num_const, c_const_loc): the closure of
\* the wrapped lambda, [f, fset_stream, const_loc] with const_loc sorted
WrapAsyncCall(pfunc, c_const_loc) ==
    [f |-> pfunc, fset_stream |-> "set_stream", const_loc |-> StdSort(c_const_loc)]

\* a FunctionContainer: whether the map holds it, and its func_ (0: null)
NoEntry == [present |-> FALSE, func_ |-> 0]
EmptyContainer == [present |-> TRUE, func_ |-> 0]

\* mutant: the lookup never finds the name
FoundNever(F, name) == FALSE

\* FUNCTIONS.find(name) != FUNCTIONS.end()
Found(F, name) == F[name].present

\* FunctionContainer::get()
ContainerGet(F, name) == F[name].func_

\* mutant: inserting a container drops the other entries of the map
SubscriptEvicting(F, name) ==
    IF F[name].present THEN F
    ELSE [n \in DOMAIN F |-> IF n = name THEN [present |-> TRUE, func_ |-> 0]
                                         ELSE [present |-> FALSE, func_ |-> 0]]

\* FUNCTIONS[name]: operator[] default-constructs a missing container
Subscript(F, name) ==
    IF F[name].present THEN F ELSE [F EXCEPT ![name] = EmptyContainer]

\* func_.reset(new PackedFunc(func)) on the heap H of PackedFunc objects:
\* the new object is allocated first, then the shared_ptr drops the old one,
\* whose only owner it was
HeapReset(H, old, closure) ==
    LET dropped == IF old = 0 THEN H ELSE [H EXCEPT ![old].alive = FALSE]
    IN  Append(dropped, [closure |-> closure, alive |-> TRUE])

(***************************************************************************)
(* TVMFunctor: Init, Run and the destructor.  Argument positions are the   *)
(* code's 0-based positions; position i is element i + 1 of a sequence.    *)
(***************************************************************************)
\* mutant: the owned value buffer is sized but the payloads are not copied
InitStartNoCopy(args, uninit_dev_type) ==
    [status |-> "ok",
     values_ |-> [i \in 1..Len(args) |-> 0],
     type_codes_ |-> [i \in 1..Len(args) |-> args[i].code],
     array_handle_ |-> <<>>,
     array_loc_ |-> <<>>,
     ctx_ |-> [dev_type |-> uninit_dev_type, dev_id |-> UnsetDevId],
     const_loc_ptr |-> 0,
     const_nds |-> <<>>,
     mutate_nds |-> <<>>,
     copy_of |-> <<>>]

\* the functor's state when Init enters its loop: values_ and type_codes_ are
\* copies of the caller's arrays, ctx_.dev_id = -1, ctx_.dev_type is whatever
\* the constructor left there (it assigns nothing to ctx_)
InitStart(args, uninit_dev_type) ==
    [status |-> "ok",
     values_ |-> [i \in 1..Len(args) |-> args[i].v],
     type_codes_ |-> [i \in 1..Len(args) |-> args[i].code],
     array_handle_ |-> <<>>,
     array_loc_ |-> <<>>,
     ctx_ |-> [dev_type |-> uninit_dev_type, dev_id |-> UnsetDevId],
     const_loc_ptr |-> 0,
     const_nds |-> <<>>,
     mutate_nds |-> <<>>,
     copy_of |-> <<>>]

\* MXShallowCopyNDArray(src, &nd): the host returns a new handle; the k-th
\* copy of a call is handle k, and copy_of[k] is the tensor it aliases
ShallowCopy(st) == Len(st.copy_of) + 1

\* the test of line 110: the position is the next expected const position
IsConstPosition(const_loc, const_loc_ptr, i) ==
    const_loc_ptr < Len(const_loc) /\ i = const_loc[const_loc_ptr + 1]

\* mutant: only the device type is compared
ContextMismatchTypeOnly(ctx_, dev) ==
    ctx_.dev_id # UnsetDevId /\ dev.dev_type # ctx_.dev_type

\* lines 98-99: a context was seen before and this tensor's differs from it
ContextMismatch(ctx_, dev) ==
    /\ ctx_.dev_id # UnsetDevId
    /\ (dev.dev_type # ctx_.dev_type \/ dev.dev_id # ctx_.dev_id)

\* mutant: the sentinel itself passes the check
PodAllowedInclusive(code) == code <= kTVMType

\* line 117: CHECK_LT(args.type_codes[i], int(kTVMType))
PodAllowed(code) == code < kTVMType

\* mutant: the owned type code is left as the caller gave it
RetagKeep(type_codes, i) == type_codes

\* line 95: type_codes_[i] = kArrayHandle
Retag(type_codes, i) == [type_codes EXCEPT ![i + 1] = kArrayHandle]

\* one iteration of Init's loop (lines 90-119) on slot i
InitSlot(st, args, const_loc, ndc, i) ==
    IF args[i + 1].code = kTVMNDArrayTypeCode
    THEN LET nd == ShallowCopy(st)
             dev == ndc[args[i + 1].v]
             copied == [st EXCEPT !.type_codes_ = Retag(@, i),
                                  !.array_handle_ = Append(@, nd),
                                  !.copy_of = Append(@, args[i + 1].v)]
         IN  IF ContextMismatch(st.ctx_, dev)
             THEN [copied EXCEPT !.status = "exit"]
             ELSE LET placed == [copied EXCEPT !.ctx_ = dev,
                                               !.array_loc_ = Append(@, i)]
                  IN  IF IsConstPosition(const_loc, st.const_loc_ptr, i)
                      THEN [placed EXCEPT !.const_nds = Append(@, nd),
                                          !.const_loc_ptr = @ + 1]
                      ELSE [placed EXCEPT !.mutate_nds = Append(@, nd)]
    ELSE IF PodAllowed(args[i + 1].code)
         THEN st
         ELSE [st EXCEPT !.status = "check"]

\* the loop of Init from slot i on; exit(-1) and a failed CHECK_LT end it
RECURSIVE InitLoop(_, _, _, _, _)
InitLoop(st, args, const_loc, ndc, i) ==
    IF i >= Len(args) \/ st.status # "ok" THEN st
    ELSE InitLoop(InitSlot(st, args, const_loc, ndc, i), args, const_loc, ndc, i + 1)

\* TVMFunctor::Init(args, const_loc, &const_nds, &mutate_nds)
TVMFunctorInit(args, const_loc, ndc, uninit_dev_type) ==
    InitLoop(InitStart(args, uninit_dev_type), args, const_loc, ndc, 0)

\* one event of a Run, as the host and the packed functions see it
Event(ev, a, b, c) == [ev |-> ev, a |-> a, b |-> b, c |-> c]

\* the DLTensor pointer &dlm->dl_tensor of the managed tensor made from handle h
DLTensorOf(h) == 100 + h

\* lines 125-130: one managed tensor per stored handle, in order
ToDLPackEvents(fn) ==
    [i \in 1..Len(fn.array_loc_) |-> Event("to_dlpack", fn.array_handle_[i], 0, 0)]

\* lines 125-130: values_[array_loc_[i]].v_handle = &dlm->dl_tensor
RECURSIVE RewriteValues(_, _, _)
RewriteValues(values, fn, i) ==
    IF i > Len(fn.array_loc_) THEN values
    ELSE RewriteValues([values EXCEPT ![fn.array_loc_[i] + 1] = DLTensorOf(fn.array_handle_[i])],
                       fn, i + 1)

\* mutant: the stream is bound and never unbound
CallEventsNoUnbind(fn, rctx) ==
    IF fn.ctx_.dev_type = kGPU
    THEN <<Event("set_stream", kDLGPU, rctx.ctx.dev_id, rctx.stream), Event("func", 0, 0, 0)>>
    ELSE <<Event("func", 0, 0, 0)>>

\* mutant: the two stream-setter calls are swapped
CallEventsUnbindFirst(fn, rctx) ==
    IF fn.ctx_.dev_type = kGPU
    THEN <<Event("set_stream", kDLGPU, rctx.ctx.dev_id, NullStream),
           Event("func", 0, 0, 0),
           Event("set_stream", kDLGPU, rctx.ctx.dev_id, rctx.stream)>>
    ELSE <<Event("func", 0, 0, 0)>>

\* mutant: the stream is bound and unbound whatever the device
CallEventsAlwaysBind(fn, rctx) ==
    <<Event("set_stream", kDLGPU, rctx.ctx.dev_id, rctx.stream),
      Event("func", 0, 0, 0),
      Event("set_stream", kDLGPU, rctx.ctx.dev_id, NullStream)>>

\* lines 134-143: the user function, between two stream-setter calls on GPU
CallEvents(fn, rctx) ==
    IF fn.ctx_.dev_type = kGPU
    THEN <<Event("set_stream", kDLGPU, rctx.ctx.dev_id, rctx.stream),
           Event("func", 0, 0, 0),
           Event("set_stream", kDLGPU, rctx.ctx.dev_id, NullStream)>>
    ELSE <<Event("func", 0, 0, 0)>>

\* mutant: the deleter loop skips the last managed tensor
DeleterEventsSkipLast(fn) ==
    [i \in 1..(Len(fn.array_loc_) - 1) |-> Event("deleter", fn.array_handle_[i], 0, 0)]

\* lines 144-146: dlm->deleter(dlm) for every managed tensor made above
DeleterEvents(fn) ==
    [i \in 1..Len(fn.array_loc_) |-> Event("deleter", fn.array_handle_[i], 0, 0)]

\* TVMFunctor::Run(rctx): everything it calls, in order
RunEvents(fn, rctx) ==
    ToDLPackEvents(fn) \o CallEvents(fn, rctx) \o DeleterEvents(fn)

\* set_stream(args): DEV_ID = args.values[1], STRM = args.values[2]
set_stream(tls, e) == [DEV_ID |-> e.b, STRM |-> e.c]

\* the thread-local DEV_ID and STRM after the events of a Run on that thread
RECURSIVE ApplyStreamEvents(_, _)
ApplyStreamEvents(tls, events) ==
    IF events = <<>> THEN tls
    ELSE ApplyStreamEvents(IF Head(events).ev = "set_stream"
                           THEN set_stream(tls, Head(events)) ELSE tls,
                           Tail(events))

\* ~TVMFunctor(): MXNDArrayFree on every element of array_handle_
DestructorFrees(fn) == fn.array_handle_

\* FUNCTIONS[name].reset(wrapped) on registry F and heap H: the pair after it
ResetEntry(F, H, name, closure) ==
    LET F1 == Subscript(F, name)
        H1 == HeapReset(H, ContainerGet(F1, name), closure)
    IN  [F |-> [F1 EXCEPT ![name].func_ = Len(H1)], H |-> H1]

(***************************************************************************)
(* State.                                                                  *)
(***************************************************************************)
VARIABLES
    d_phase,     \* deriver harness: "start" before the call, "derived" after
    read_in,     \* provisional read list given to the deriver
    write_in,    \* provisional write list given to the deriver
    read_nds,    \* read_nds after DeduplicateNDArrayHandle
    write_nds,   \* write_nds after DeduplicateNDArrayHandle
    read_nds2,   \* read_nds after a second DeduplicateNDArrayHandle on the result
    write_nds2,  \* write_nds after a second DeduplicateNDArrayHandle on the result
    FUNCTIONS,   \* the registry: name -> FunctionContainer
    packed,      \* the heap of PackedFunc objects: pointer p is packed[p]
    reg_log,     \* the GetMXNetFunc calls that returned, with their result
    r_pc,        \* per thread: its position inside GetMXNetFunc
    r_cur,       \* per thread: the arguments of its current call
    ndctx,       \* host: the device context of every tensor
    c_pc,        \* caller: "idle", "pushed" (inside the lambda, after push_sync), "exited"
    call,        \* the current wrapped call: its arguments and the wrapping called
    fn,          \* the TVMFunctor of the current call
    fn_refs,     \* use count of the shared_ptr<TVMFunctor>
    fn_state,    \* "none", "alive", or the thread whose release destroyed it
    ps,          \* the SyncFuncParams block: "none", "alive", "deleted"
    pushed,      \* the MXEnginePushSyncND calls of the current call, with their status
    task,        \* the engine's task: "none", "queued", "ran", "deleted"
    freed,       \* host: the handles given to MXNDArrayFree, in order
    run_log,     \* the calls made by Run, in order
    func_seen,   \* the argument arrays the user function was called with
    rctx,        \* the RunContext and the worker of the last Run
    tls,         \* per worker thread: the thread-local DEV_ID and STRM
    t_events,    \* per worker thread: the calls of the Run it is executing
    t_pos,       \* per worker thread: how many of these calls have been made
    t_hist       \* per worker thread: the contexts of the tasks it was given

dvars == <<d_phase, read_in, write_in, read_nds, write_nds, read_nds2, write_nds2>>
rvars == <<FUNCTIONS, packed, reg_log, r_pc, r_cur>>
cvars == <<ndctx, c_pc, call, fn, fn_refs, fn_state, ps, pushed, task,
           freed, run_log, func_seen, rctx, tls>>

tvars == <<t_events, t_pos, t_hist>>

vars == <<dvars, rvars, cvars, tvars>>

\* the per-call state before any wrapped call
NoCall == [args |-> <<>>, c_const_loc |-> <<>>, wrapped |-> WrapAsyncCall("f1", <<>>)]
NoFunctor == InitStart(<<>>, 0)
NoRun == [ctx |-> [dev_type |-> 0, dev_id |-> 0], stream |-> NullStream,
          worker |-> "w1", tls_before |-> [DEV_ID |-> 0, STRM |-> NullStream]]
NoArgsSeen == [values |-> <<>>, type_codes |-> <<>>, f |-> "none"]
\* thread_local int DEV_ID; thread_local void* STRM: zero-initialized
ZeroTls == [DEV_ID |-> 0, STRM |-> NullStream]
FreshThreads == tls = [w \in Workers |-> ZeroTls]

CallIdle ==
    /\ c_pc = "idle"
    /\ call = NoCall
    /\ fn = NoFunctor
    /\ fn_refs = 0
    /\ fn_state = "none"
    /\ ps = "none"
    /\ pushed = <<>>
    /\ task = "none"
    /\ freed = <<>>
    /\ run_log = <<>>
    /\ func_seen = NoArgsSeen
    /\ rctx = NoRun

\* no worker has been given a task
TasksIdle ==
    /\ t_events = [w \in Workers |-> <<>>]
    /\ t_pos = [w \in Workers |-> 0]
    /\ t_hist = [w \in Workers |-> <<>>]

DedupIdle ==
    /\ d_phase = "start"
    /\ read_in = <<>>
    /\ write_in = <<>>
    /\ read_nds = <<>>
    /\ write_nds = <<>>
    /\ read_nds2 = <<>>
    /\ write_nds2 = <<>>

RegIdle ==
    /\ FUNCTIONS = [n \in Names |-> NoEntry]
    /\ packed = <<>>
    /\ reg_log = <<>>
    /\ r_pc = [t \in RegThreads |-> "idle"]
    /\ r_cur = [t \in RegThreads |-> [name |-> "conv_fwd", pfunc |-> "f1", const_loc |-> <<>>]]

(***************************************************************************)
(* The dependency deriver applied to arbitrary provisional lists.          *)
(***************************************************************************)
\* outside the call life cycle the host's tensors play no part
NoHost == ndctx = [t \in Tensors |-> [dev_type |-> kCPU, dev_id |-> 0]]

DedupInit == DedupIdle /\ RegIdle /\ CallIdle /\ NoHost /\ FreshThreads /\ TasksIdle

Derive ==
    /\ d_phase = "start"
    /\ \E rd \in SeqsUpTo(Handles, MaxReads), wr \in SeqsUpTo(Handles, MaxWrites) :
          LET out == DeduplicateNDArrayHandle(rd, wr)
          IN  /\ read_in' = rd
              /\ write_in' = wr
              /\ read_nds' = out.read
              /\ write_nds' = out.write
    /\ d_phase' = "derived"
    /\ UNCHANGED <<read_nds2, write_nds2, rvars, cvars, tvars>>

\* DeduplicateNDArrayHandle called again on the two vectors it produced
Rederive ==
    /\ d_phase = "derived"
    /\ LET out == DeduplicateNDArrayHandle(read_nds, write_nds)
       IN  /\ read_nds2' = out.read
           /\ write_nds2' = out.write
    /\ d_phase' = "rederived"
    /\ UNCHANGED <<read_in, write_in, read_nds, write_nds, rvars, cvars, tvars>>

DedupNext == Derive \/ Rederive

SpecDedup == DedupInit /\ [][DedupNext]_vars

\* no element occurs twice in s
NoDuplicate(s) == \A i, j \in 1..Len(s) : i # j => s[i] # s[j]

\* C1: after the deriver the write-set is the distinct handles of writes, the
\* read-set is the distinct handles of reads minus those of writes, neither
\* holds a duplicate, the two are disjoint and their union is the set of all
\* input handles.
C1_DedupWriterWins ==
    d_phase # "start" =>
        /\ Range(write_nds) = Range(write_in)
        /\ Range(read_nds) = Range(read_in) \ Range(write_in)
        /\ NoDuplicate(read_nds)
        /\ NoDuplicate(write_nds)
        /\ Range(read_nds) \cap Range(write_nds) = {}
        /\ Range(read_nds) \cup Range(write_nds) = Range(read_in) \cup Range(write_in)

\* C1 witness: the spec's stress case reads [A,B,A,C,B], writes [B,D]
\* (A,B,C,D = 1,2,3,4) has been derived to reads {A,C}, writes {B,D}.
C1_Witness ==
    /\ d_phase = "derived"
    /\ read_in = <<1, 2, 1, 3, 2>>
    /\ write_in = <<2, 4>>
    /\ read_nds = <<1, 3>>
    /\ write_nds = <<2, 4>>

\* C15: the deriver applied to its own output returns that output: the same
\* read vector and the same write vector.
C15_DedupIdempotent ==
    d_phase = "rederived" => (read_nds2 = read_nds /\ write_nds2 = write_nds)

\* C15 witness: the deriver ran twice on lists with duplicates and overlap,
\* and the first run had removed something.
C15_Witness ==
    /\ d_phase = "rederived"
    /\ read_in = <<3, 2, 2, 1>>
    /\ write_in = <<2, 2>>
    /\ read_nds = <<1, 3>>
    /\ read_nds2 = <<1, 3>>
    /\ write_nds2 = <<2>>

(***************************************************************************)
(* The registry, one caller: GetMXNetFunc as a whole.                      *)
(***************************************************************************)
RegInit == DedupIdle /\ RegIdle /\ CallIdle /\ NoHost /\ FreshThreads /\ TasksIdle

\* one returned call, as the log keeps it
Returned(t, req, ret) ==
    [thread |-> t, name |-> req.name, pfunc |-> req.pfunc,
     const_loc |-> req.const_loc, ret |-> ret]

\* GetMXNetFunc(cname, pfunc, num_const, const_loc) called by thread t and
\* run to its return
GetMXNetFunc(t, cname, pfunc, const_loc) ==
    LET req == [name |-> cname, pfunc |-> pfunc, const_loc |-> const_loc]
    IN  /\ Len(reg_log) < MaxRegCalls
        /\ IF Found(FUNCTIONS, cname)
           THEN /\ reg_log' = Append(reg_log, Returned(t, req, ContainerGet(FUNCTIONS, cname)))
                /\ UNCHANGED <<FUNCTIONS, packed>>
           ELSE LET st == ResetEntry(FUNCTIONS, packed, cname, WrapAsyncCall(pfunc, const_loc))
                IN  /\ FUNCTIONS' = Subscript(st.F, cname)
                    /\ packed' = st.H
                    /\ reg_log' = Append(reg_log,
                                         Returned(t, req, ContainerGet(Subscript(st.F, cname), cname)))
        /\ UNCHANGED <<r_pc, r_cur, dvars, cvars, tvars>>

RegNext ==
    \E cname \in Names, pfunc \in UserFuncs, const_loc \in ConstLocs :
        GetMXNetFunc("t1", cname, pfunc, const_loc)

SpecReg == RegInit /\ [][RegNext]_vars

\* the first logged call of the name of call i
FirstOf(i) ==
    reg_log[CHOOSE j \in 1..Len(reg_log) :
                /\ reg_log[j].name = reg_log[i].name
                /\ \A k \in 1..(j - 1) : reg_log[k].name # reg_log[i].name]

\* C5: with one caller, every lookup of a name returns the pointer its first
\* lookup returned, and that pointer stays the live entry of the name whatever
\* other names are registered (never evicted, never replaced).
C5_SamePointer ==
    \A i \in 1..Len(reg_log) :
        /\ reg_log[i].ret = FirstOf(i).ret
        /\ reg_log[i].ret \in 1..Len(packed)
        /\ packed[reg_log[i].ret].alive
        /\ Found(FUNCTIONS, reg_log[i].name)
        /\ ContainerGet(FUNCTIONS, reg_log[i].name) = reg_log[i].ret

\* C5 witness: a name was looked up, another name was registered, and the
\* first name was looked up again with the same result.
C5_Witness ==
    /\ Len(reg_log) = 3
    /\ reg_log[1].name = "conv_fwd"
    /\ reg_log[2].name = "im2col"
    /\ reg_log[3].name = "conv_fwd"
    /\ reg_log[3].ret = reg_log[1].ret
    /\ reg_log[2].ret # reg_log[1].ret

\* C6: the wrapped function a name resolves to is the wrapping of the first
\* call's user function and const positions; a later call's are ignored and
\* no second wrapping is built for the name.
C6_FirstWrappingKept ==
    \A i \in 1..Len(reg_log) :
        /\ reg_log[i].ret \in 1..Len(packed)
        /\ packed[reg_log[i].ret].closure =
               WrapAsyncCall(FirstOf(i).pfunc, FirstOf(i).const_loc)
        /\ Len(packed) = Cardinality({reg_log[j].name : j \in 1..Len(reg_log)})

\* C6 witness: GetMXNetFunc(name, f1, [1,0]) then GetMXNetFunc(name, f2, [0])
\* returned, and the entry still wraps f1 with const positions [0,1].
C6_Witness ==
    /\ Len(reg_log) >= 2
    /\ reg_log[1].name = reg_log[2].name
    /\ reg_log[1].pfunc = "f1" /\ reg_log[1].const_loc = <<1, 0>>
    /\ reg_log[2].pfunc = "f2" /\ reg_log[2].const_loc = <<0>>
    /\ packed[reg_log[2].ret].closure.f = "f1"
    /\ packed[reg_log[2].ret].closure.const_loc = <<0, 1>>

(***************************************************************************)
(* The registry under concurrent callers: GetMXNetFunc takes no lock, so   *)
(* its statements interleave.                                              *)
(***************************************************************************)
\* calls begun: returned ones and those in progress
CallsBegun == Len(reg_log) + Cardinality({t \in RegThreads : r_pc[t] # "idle"})

\* entry of GetMXNetFunc: std::string name(cname)
RegEnter(t) ==
    /\ r_pc[t] = "idle"
    /\ CallsBegun < MaxConcCalls
    /\ \E cname \in Names, pfunc \in UserFuncs, const_loc \in ConstLocs :
          r_cur' = [r_cur EXCEPT ![t] = [name |-> cname, pfunc |-> pfunc, const_loc |-> const_loc]]
    /\ r_pc' = [r_pc EXCEPT ![t] = "find"]
    /\ UNCHANGED <<FUNCTIONS, packed, reg_log, dvars, cvars, tvars>>

\* line 265-266: auto p = FUNCTIONS.find(name); if (p != FUNCTIONS.end())
RegFind(t) ==
    /\ r_pc[t] = "find"
    /\ r_pc' = [r_pc EXCEPT ![t] = IF Found(FUNCTIONS, r_cur[t].name) THEN "hit" ELSE "subscript"]
    /\ UNCHANGED <<FUNCTIONS, packed, reg_log, r_cur, dvars, cvars, tvars>>

\* line 267: return p->second.get()
RegReturnHit(t) ==
    /\ r_pc[t] = "hit"
    /\ reg_log' = Append(reg_log, Returned(t, r_cur[t], ContainerGet(FUNCTIONS, r_cur[t].name)))
    /\ r_pc' = [r_pc EXCEPT ![t] = "idle"]
    /\ UNCHANGED <<FUNCTIONS, packed, r_cur, dvars, cvars, tvars>>

\* line 269, FUNCTIONS[name]: the container is inserted before it is reset
RegSubscript(t) ==
    /\ r_pc[t] = "subscript"
    /\ FUNCTIONS' = Subscript(FUNCTIONS, r_cur[t].name)
    /\ r_pc' = [r_pc EXCEPT ![t] = "reset"]
    /\ UNCHANGED <<packed, reg_log, r_cur, dvars, cvars, tvars>>

\* line 269, .reset(WrapAsyncCall(pfunc, set_stream, num_const, const_loc))
RegReset(t) ==
    /\ r_pc[t] = "reset"
    /\ LET st == ResetEntry(FUNCTIONS, packed, r_cur[t].name,
                            WrapAsyncCall(r_cur[t].pfunc, r_cur[t].const_loc))
       IN  FUNCTIONS' = st.F /\ packed' = st.H
    /\ r_pc' = [r_pc EXCEPT ![t] = "get"]
    /\ UNCHANGED <<reg_log, r_cur, dvars, cvars, tvars>>

\* line 270: return FUNCTIONS[name].get()
RegReturnNew(t) ==
    /\ r_pc[t] = "get"
    /\ FUNCTIONS' = Subscript(FUNCTIONS, r_cur[t].name)
    /\ reg_log' = Append(reg_log, Returned(t, r_cur[t],
                                           ContainerGet(Subscript(FUNCTIONS, r_cur[t].name), r_cur[t].name)))
    /\ r_pc' = [r_pc EXCEPT ![t] = "idle"]
    /\ UNCHANGED <<packed, r_cur, dvars, cvars, tvars>>

RegConcNext ==
    \E t \in RegThreads :
        \/ RegEnter(t)
        \/ RegFind(t)
        \/ RegReturnHit(t)
        \/ RegSubscript(t)
        \/ RegReset(t)
        \/ RegReturnNew(t)

SpecRegConc == RegInit /\ [][RegConcNext]_vars

\* C4: under concurrent callers, calls with the same name all obtain the same
\* pointer, and every returned pointer refers to a wrapped function that
\* exists and has not been destroyed.
C4_ConcurrentLookupSafe ==
    \A i \in 1..Len(reg_log) :
        /\ reg_log[i].ret \in 1..Len(packed)
        /\ packed[reg_log[i].ret].alive
        /\ \A j \in 1..Len(reg_log) :
              reg_log[j].name = reg_log[i].name => reg_log[j].ret = reg_log[i].ret

(***************************************************************************)
(* The life of one wrapped call: the lambda of WrapAsyncCall on the caller *)
(* thread, the engine's two trampolines on worker threads.  The workers    *)
(* may have run tasks before: their thread-local state is what those left. *)
(***************************************************************************)
\* DEV_ID and STRM of a worker that has run nothing yet, or whose last task
\* was a Run on a GPU context
EarlierTaskTls ==
    {ZeroTls} \cup
    {ApplyStreamEvents(ZeroTls, CallEvents([ctx_ |-> c], [ctx |-> c, stream |-> s])) :
        c \in {x \in Contexts : x.dev_type = kGPU}, s \in Streams}

Init ==
    /\ DedupIdle /\ RegIdle /\ CallIdle /\ TasksIdle
    /\ ndctx \in [Tensors -> Contexts]
    /\ tls \in [Workers -> EarlierTaskTls]

\* mutant: every release destroys the functor, as an owning raw pointer would
ReleaseUncounted(th) ==
    /\ fn_refs' = fn_refs - 1
    /\ fn_state' = th
    /\ freed' = freed \o DestructorFrees(fn)

\* mutant: the first release already runs the destructor
ReleaseEarly(th) ==
    /\ fn_refs' = fn_refs - 1
    /\ IF fn_refs = 2
       THEN /\ fn_state' = th
            /\ freed' = freed \o DestructorFrees(fn)
       ELSE UNCHANGED <<fn_state, freed>>

\* releasing one shared_ptr<TVMFunctor> on thread th: the last release runs
\* ~TVMFunctor there, which frees the shallow copies
Release(th) ==
    /\ fn_refs' = fn_refs - 1
    /\ IF fn_refs = 1
       THEN /\ fn_state' = th
            /\ freed' = freed \o DestructorFrees(fn)
       ELSE UNCHANGED <<fn_state, freed>>

\* the wrapped lambda (lines 220-237) up to the return of MXEnginePushSyncND,
\* called with args through the wrapping of c_const_loc; the host answers the
\* push with status
WrappedCall(args, c_const_loc, uninit_dev_type, status) ==
    LET wrapped == WrapAsyncCall("f1", c_const_loc)
        st == TVMFunctorInit(args, wrapped.const_loc, ndctx, uninit_dev_type)
        deps == DeduplicateNDArrayHandle(st.const_nds, st.mutate_nds)
    IN  /\ c_pc = "idle"
        /\ fn_state = "none"
        /\ call' = [args |-> args, c_const_loc |-> c_const_loc, wrapped |-> wrapped]
        /\ fn' = st
        /\ freed' = <<>>
        /\ run_log' = <<>>
        /\ func_seen' = NoArgsSeen
        /\ rctx' = NoRun
        /\ IF st.status = "ok"
           THEN /\ c_pc' = "pushed"
                /\ fn_refs' = 2
                /\ fn_state' = "alive"
                /\ ps' = "alive"
                /\ pushed' = <<[ctx |-> st.ctx_, const_nds |-> deps.read,
                               mutate_nds |-> deps.write, status |-> status]>>
                /\ task' = IF status = 0 THEN "queued" ELSE "none"
           ELSE /\ c_pc' = "exited"
                /\ fn_refs' = 1
                /\ fn_state' = "alive"
                /\ ps' = "none"
                /\ pushed' = <<>>
                /\ task' = "none"
        /\ UNCHANGED <<ndctx, tls, dvars, rvars, tvars>>

\* the lambda returns: its local shared_ptr func goes out of scope
WrappedReturn ==
    /\ c_pc = "pushed"
    /\ c_pc' = "idle"
    /\ Release("caller")
    /\ UNCHANGED <<ndctx, call, fn, ps, pushed, task, run_log, func_seen,
                   rctx, tls, dvars, rvars, tvars>>

\* the engine runs the task on worker w: sync_func_inst(rctx, ps), that is
\* ps->func->Run(*pctx), with the context the task was pushed with
EngineRun(w, stream) ==
    LET rc == [ctx |-> pushed[1].ctx, stream |-> stream]
        events == RunEvents(fn, rc)
    IN  /\ task = "queued"
        /\ task' = "ran"
        /\ rctx' = [ctx |-> rc.ctx, stream |-> stream, worker |-> w, tls_before |-> tls[w]]
        /\ run_log' = events
        /\ fn' = [fn EXCEPT !.values_ = RewriteValues(fn.values_, fn, 1)]
        /\ func_seen' = [values |-> RewriteValues(fn.values_, fn, 1),
                         type_codes |-> fn.type_codes_, f |-> call.wrapped.f]
        /\ tls' = [tls EXCEPT ![w] = ApplyStreamEvents(tls[w], events)]
        /\ UNCHANGED <<ndctx, c_pc, call, fn_refs, fn_state, ps, pushed,
                       freed, dvars, rvars, tvars>>

\* the engine disposes of the task on worker w: deleter_inst(ps), delete ps
EngineDelete(w) ==
    /\ task = "ran"
    /\ task' = "deleted"
    /\ ps' = "deleted"
    /\ Release(w)
    /\ UNCHANGED <<ndctx, c_pc, call, fn, pushed, run_log, func_seen,
                   rctx, tls, dvars, rvars, tvars>>

\* the stream the engine hands to a task: a real stream on GPU
EngineStreams == IF pushed # <<>> /\ pushed[1].ctx.dev_type = kGPU THEN Streams ELSE {NullStream}

\* what ctx_.dev_type holds before Init: it matters only to a call without
\* tensor argument, every other call overwrites it before reading it
UninitChoices(args) ==
    IF \E i \in 1..Len(args) : args[i].code = kTVMNDArrayTypeCode THEN {0} ELSE UninitDevTypes

Next ==
    \/ /\ fn_state = "none"
       /\ \E args \in SeqsUpTo(ArgSlots, MaxArgs), c_const_loc \in ConstLocs :
             \E uninit_dev_type \in UninitChoices(args), status \in PushStatuses :
               WrappedCall(args, c_const_loc, uninit_dev_type, status)
    \/ WrappedReturn
    \/ \E w \in Workers, stream \in EngineStreams : EngineRun(w, stream)
    \/ \E w \in Workers : EngineDelete(w)

Spec == Init /\ [][Next]_vars

(***************************************************************************)
(* One wrapped call followed up to the return of push_sync, on longer      *)
(* argument lists and arbitrary const-position arrays.                     *)
(***************************************************************************)
CallInit ==
    /\ DedupIdle /\ RegIdle /\ CallIdle /\ FreshThreads /\ TasksIdle
    /\ ndctx \in [Tensors -> Contexts]

CallNext ==
    /\ fn_state = "none"
    /\ \E args \in SeqsUpTo(ArgSlots, MaxCallArgs),
          c_const_loc \in SeqsUpTo(0..(MaxCallArgs - 1), MaxConst) :
           \E uninit_dev_type \in UninitChoices(args) :
               WrappedCall(args, c_const_loc, uninit_dev_type, 0)

SpecCall == CallInit /\ [][CallNext]_vars

\* a wrapped call has been made
CallMade == fn_state # "none"

\* the 1-based slots of the call's argument list holding a framework tensor
TensorSlots == {i \in 1..Len(call.args) : call.args[i].code = kTVMNDArrayTypeCode}
PodSlots == (1..Len(call.args)) \ TensorSlots

\* all tensor arguments of the call report one device context
TensorsAgree ==
    \A i, j \in TensorSlots : ndctx[call.args[i].v] = ndctx[call.args[j].v]

\* C11: a call with two tensor arguments on different device contexts ends
\* the process during Init, wherever the two tensors stand, and issues no
\* push_sync.
C11_InconsistentContextAborts ==
    (CallMade /\ ~TensorsAgree) =>
        /\ fn.status # "ok"
        /\ c_pc = "exited"
        /\ pushed = <<>>
        /\ task = "none"

\* C11 witness: tensors on (GPU,0) and (GPU,1) at positions 0 and 2 with an
\* accepted value between them; Init ended in exit(-1).
C11_Witness ==
    /\ CallMade
    /\ Len(call.args) = 3
    /\ TensorSlots = {1, 3}
    /\ ndctx[call.args[1].v] = [dev_type |-> kGPU, dev_id |-> 0]
    /\ ndctx[call.args[3].v] = [dev_type |-> kGPU, dev_id |-> 1]
    /\ fn.status = "exit"
    /\ pushed = <<>>

\* C12 as claimed: non-tensor slots with a type code up to and including the
\* sentinel kTVMType are accepted, those above it are fatal before any push.
C12_PodUpToSentinelAccepted ==
    (CallMade /\ TensorsAgree) =>
        /\ (\A i \in PodSlots : call.args[i].code <= kTVMType)
              => (fn.status = "ok" /\ Len(pushed) = 1)
        /\ (\E i \in PodSlots : call.args[i].code > kTVMType)
              => (fn.status = "check" /\ pushed = <<>> /\ c_pc = "exited")

\* C12 amended: non-tensor slots with a type code below the sentinel kTVMType
\* are accepted; a slot holding the sentinel or a code above it is fatal
\* before any push.
C12_PodBelowSentinelAccepted ==
    (CallMade /\ TensorsAgree) =>
        /\ (\A i \in PodSlots : call.args[i].code < kTVMType)
              => (fn.status = "ok" /\ Len(pushed) = 1)
        /\ (\E i \in PodSlots : call.args[i].code >= kTVMType)
              => (fn.status = "check" /\ pushed = <<>> /\ c_pc = "exited")

\* C12 witness: a call whose only non-tensor slot holds the sentinel itself
\* failed the check and pushed nothing.
C12_Witness ==
    /\ CallMade
    /\ Len(call.args) = 2
    /\ TensorSlots = {1}
    /\ call.args[2].code = kTVMType
    /\ fn.status = "check"
    /\ pushed = <<>>

\* s is strictly ascending
Ascending(s) == \A i, j \in 1..Len(s) : i < j => s[i] < s[j]

\* C13: after a successful Init, array_loc holds exactly the positions of the
\* framework tensors in ascending order, array_handle holds one shallow copy
\* (of that position's tensor) per position, and the owned type code at each
\* of these positions is the DLPack tensor tag.
C13_ArrayLocAndHandles ==
    (CallMade /\ fn.status = "ok") =>
        /\ Range(fn.array_loc_) = {i - 1 : i \in TensorSlots}
        /\ Ascending(fn.array_loc_)
        /\ Len(fn.array_handle_) = Len(fn.array_loc_)
        /\ NoDuplicate(fn.array_handle_)
        /\ \A k \in 1..Len(fn.array_loc_) :
              /\ fn.copy_of[fn.array_handle_[k]] = call.args[fn.array_loc_[k] + 1].v
              /\ fn.type_codes_[fn.array_loc_[k] + 1] = kArrayHandle

\* C13 witness: Init succeeded on (tensor, value, tensor).
C13_Witness ==
    /\ CallMade
    /\ fn.status = "ok"
    /\ Len(call.args) = 3
    /\ fn.array_loc_ = <<0, 2>>
    /\ fn.array_handle_ = <<1, 2>>
    /\ fn.type_codes_ = <<kArrayHandle, kTVMType - 1, kArrayHandle>>

\* C14: Init copies every non-tensor slot unchanged into the owned buffers
\* (type code and value), and changes the owned type code of tensor slots only.
C14_PodSlotsPreserved ==
    CallMade =>
        /\ Len(fn.type_codes_) = Len(call.args)
        /\ Len(fn.values_) = Len(call.args)
        /\ \A i \in PodSlots :
              /\ fn.type_codes_[i] = call.args[i].code
              /\ fn.values_[i] = call.args[i].v
        /\ \A i \in 1..Len(call.args) :
              fn.type_codes_[i] # call.args[i].code =>
                  (i \in TensorSlots /\ fn.type_codes_[i] = kArrayHandle)

\* C14 witness: the call (tensor, value, value): positions 1 and 2 are kept,
\* position 0 alone is retagged.
C14_Witness ==
    /\ CallMade
    /\ fn.status = "ok"
    /\ Len(call.args) = 3
    /\ TensorSlots = {1}
    /\ fn.type_codes_ = <<kArrayHandle, kTVMType - 1, kTVMType - 1>>
    /\ fn.values_[2] = PodValue /\ fn.values_[3] = PodValue

\* the const positions of the call are distinct and positions of its arguments
ConstLocValid ==
    /\ NoDuplicate(call.c_const_loc)
    /\ \A p \in Range(call.c_const_loc) : p < Len(call.args)

\* C16: with distinct in-range const positions in any order, the tensors at
\* positions listed in const_loc go to the provisional read list and all
\* other tensors to the provisional write list.
C16_ConstPositionsAreReads ==
    (CallMade /\ fn.status = "ok" /\ ConstLocValid) =>
        \A k \in 1..Len(fn.array_loc_) :
            IF fn.array_loc_[k] \in Range(call.c_const_loc)
            THEN fn.array_handle_[k] \in Range(fn.const_nds)
            ELSE fn.array_handle_[k] \in Range(fn.mutate_nds)

(***************************************************************************)
(* Engine worker threads running one task after another.  Run is followed  *)
(* call by call, so that a worker is seen inside a Run as well as between  *)
(* two of them.                                                            *)
(***************************************************************************)
TasksInit ==
    /\ DedupIdle /\ RegIdle /\ CallIdle /\ NoHost /\ FreshThreads /\ TasksIdle

\* the functor of a wrapped call with one tensor argument on context c
TaskFunctor(c) ==
    TVMFunctorInit(<<[code |-> kTVMNDArrayTypeCode, v |-> 11]>>, <<>>,
                   [t \in Tensors |-> c], 0)

\* no Run is executing on worker w
WorkerIdle(w) == t_pos[w] = Len(t_events[w])

TasksGiven == Len(t_hist["w1"]) + Len(t_hist["w2"])

\* the engine calls sync_func_inst on worker w for a task pushed with
\* context c: Run(rctx) begins
BeginRun(w, c, stream) ==
    /\ WorkerIdle(w)
    /\ TasksGiven < MaxTasks
    /\ t_events' = [t_events EXCEPT
                      ![w] = RunEvents(TaskFunctor(c), [ctx |-> c, stream |-> stream])]
    /\ t_pos' = [t_pos EXCEPT ![w] = 0]
    /\ t_hist' = [t_hist EXCEPT ![w] = Append(@, c)]
    /\ UNCHANGED <<tls, ndctx, c_pc, call, fn, fn_refs, fn_state, ps, pushed,
                   task, freed, run_log, func_seen, rctx, dvars, rvars>>

\* Run on worker w makes its next call; the last one is followed by the
\* return of Run
StepRun(w) ==
    /\ ~WorkerIdle(w)
    /\ t_pos' = [t_pos EXCEPT ![w] = @ + 1]
    /\ tls' = [tls EXCEPT
                 ![w] = ApplyStreamEvents(@, <<t_events[w][t_pos[w] + 1]>>)]
    /\ UNCHANGED <<t_events, t_hist, ndctx, c_pc, call, fn, fn_refs, fn_state,
                   ps, pushed, task, freed, run_log, func_seen, rctx, dvars, rvars>>

\* the stream the engine hands to a task on context c
StreamsFor(c) == IF c.dev_type = kGPU THEN Streams ELSE {NullStream}

TasksNext ==
    \/ \E w \in Workers, c \in Contexts : \E stream \in StreamsFor(c) :
          BeginRun(w, c, stream)
    \/ \E w \in Workers : StepRun(w)

SpecTasks == TasksInit /\ [][TasksNext]_vars

\* C19: on every worker thread, whenever no Run is executing on it, the
\* thread-local stream is null, whatever CPU and GPU tasks it has run: the
\* next task finds no stream bound by an earlier one.
C19_StreamNullBetweenTasks ==
    \A w \in Workers : WorkerIdle(w) => tls[w].STRM = NullStream

\* C19 witness: worker w1 has run a task on (GPU, 1) and then one on a CPU
\* context; it is idle, its DEV_ID is still 1 and its stream is null.
C19_Witness ==
    /\ WorkerIdle("w1")
    /\ Len(t_hist["w1"]) = 2
    /\ t_hist["w1"][1] = [dev_type |-> kGPU, dev_id |-> 1]
    /\ t_hist["w1"][2] = [dev_type |-> kCPU, dev_id |-> 0]
    /\ tls["w1"] = [DEV_ID |-> 1, STRM |-> NullStream]

\* the tensors behind a list of shallow-copy handles
TensorsOf(handles) == {fn.copy_of[h] : h \in Range(handles)}

\* C2: no tensor is presented to the engine in both the read set and the
\* write set of a push_sync; a tensor passed at a const and at a non-const
\* position is listed only as a writer.
C2_AliasedTensorOnlyWriter ==
    \A k \in 1..Len(pushed) :
        TensorsOf(pushed[k].const_nds) \cap TensorsOf(pushed[k].mutate_nds) = {}

\* C3: a wrapped call whose push_sync returned a non-zero status does not
\* return normally to its caller.
C3_PushFailureIsFatal ==
    \A k \in 1..Len(pushed) : pushed[k].status # 0 => c_pc # "idle"

\* the functor has been destroyed
Destroyed == fn_state \notin {"none", "alive"}

\* C7: only handles created by Init are freed, none twice, none before the
\* destructor runs, and every one of them once the functor is destroyed.
C7_ShallowCopiesFreedOnce ==
    /\ Range(freed) \subseteq 1..Len(fn.copy_of)
    /\ NoDuplicate(freed)
    /\ ~Destroyed => freed = <<>>
    /\ Destroyed => Range(freed) = 1..Len(fn.copy_of)

\* C7 witness: a call with two tensor arguments has run and returned, its
\* functor is destroyed and both shallow copies are freed.
C7_Witness ==
    /\ Destroyed
    /\ task = "deleted"
    /\ c_pc = "idle"
    /\ Len(fn.copy_of) = 2
    /\ Len(freed) = 2

\* a Run of the current functor has returned
RunReturned == task \in {"ran", "deleted"}

\* the positions of run_log holding an event of kind ev about a
EventsAt(ev, a) == {i \in 1..Len(run_log) : run_log[i].ev = ev /\ run_log[i].a = a}
EventsOf(ev) == {i \in 1..Len(run_log) : run_log[i].ev = ev}

\* C17: the param block holds the only owning reference to the functor, so
\* the destructor runs in the deleter on an engine thread and never on the
\* caller thread when the wrapped call returns.
C17_DeleterRunsDestructor ==
    /\ (fn_state = "alive" /\ ps = "alive") => fn_refs = 1
    /\ Destroyed => (fn_state \in Workers /\ ps = "deleted")

\* C18: no shallow copy is freed and the functor is not destroyed before its
\* Run has returned; while the task waits to run, the functor, its param
\* block and all its handles are alive.
C18_NoFreeBeforeRunReturns ==
    /\ freed # <<>> => RunReturned
    /\ Destroyed => RunReturned
    /\ task = "queued" =>
          /\ fn_state = "alive"
          /\ ps = "alive"
          /\ fn_refs >= 1
          /\ freed = <<>>

\* C18 witness: the lambda has returned and dropped its reference before the
\* engine ran the task; Run has returned on a functor that is still alive
\* with its two shallow copies.
C18_Witness ==
    /\ task = "ran"
    /\ c_pc = "idle"
    /\ fn_state = "alive"
    /\ fn_refs = 1
    /\ Len(fn.array_handle_) = 2
    /\ freed = <<>>
    /\ Len(run_log) >= 5

\* Init assigned the device type of c: the only assignment of ctx_.dev_type
\* is ctx_ = {dev_type, dev_id} of a tensor's context (line 106), which also
\* overwrites the -1 that line 88 put in ctx_.dev_id
DevTypeAssigned(c) == c.dev_id # UnsetDevId

\* C20: the context passed to push_sync and the device type Run branches on
\* are values Init assigned, also for a call without tensor argument.
C20_ContextDetermined ==
    /\ \A k \in 1..Len(pushed) : DevTypeAssigned(pushed[k].ctx)
    /\ RunReturned => DevTypeAssigned(fn.ctx_)

\* C8: in every Run, each stored handle gets exactly one managed tensor,
\* made before the user function is called, and exactly one deleter call,
\* made after the user function returned; no other managed tensor is made or
\* deleted.
C8_ManagedTensorsDeletedOnce ==
    RunReturned =>
        /\ Cardinality(EventsOf("func")) = 1
        /\ Cardinality(EventsOf("to_dlpack")) = Len(fn.array_handle_)
        /\ Cardinality(EventsOf("deleter")) = Len(fn.array_handle_)
        /\ \A h \in Range(fn.array_handle_) :
              /\ Cardinality(EventsAt("to_dlpack", h)) = 1
              /\ Cardinality(EventsAt("deleter", h)) = 1
              /\ \A i \in EventsAt("to_dlpack", h), j \in EventsOf("func"),
                    k \in EventsAt("deleter", h) : i < j /\ j < k

\* C8 witness: a Run with two stored handles has returned, on GPU.
C8_Witness ==
    /\ RunReturned
    /\ Len(fn.array_handle_) = 2
    /\ fn.ctx_.dev_type = kGPU
    /\ Len(run_log) = 7

\* C9: a Run on a GPU context calls the stream setter exactly twice, with
\* (GPU, device id, the engine's stream) before the single call of the user
\* function and with (GPU, device id, null) after it.
C9_GpuBindsThenUnbinds ==
    (RunReturned /\ fn.ctx_.dev_type = kGPU) =>
        /\ Cardinality(EventsOf("set_stream")) = 2
        /\ Cardinality(EventsOf("func")) = 1
        /\ \E i, k \in EventsOf("set_stream") : \E j \in EventsOf("func") :
              /\ i < j /\ j < k
              /\ run_log[i] = Event("set_stream", kDLGPU, fn.ctx_.dev_id, rctx.stream)
              /\ run_log[k] = Event("set_stream", kDLGPU, fn.ctx_.dev_id, NullStream)
              /\ rctx.stream \in Streams

\* C9 witness: a Run on (GPU, 1) with stream 2 has returned.
C9_Witness ==
    /\ RunReturned
    /\ fn.ctx_ = [dev_type |-> kGPU, dev_id |-> 1]
    /\ rctx.stream = 2
    /\ Len(fn.array_handle_) = 1
    /\ run_log[2] = Event("set_stream", kDLGPU, 1, 2)
    /\ run_log[4] = Event("set_stream", kDLGPU, 1, NullStream)

\* C10: a Run on a context that is not GPU never calls the stream setter,
\* calls the user function exactly once, and leaves the worker's DEV_ID and
\* STRM as they were.
C10_CpuLeavesStreamAlone ==
    (RunReturned /\ fn.ctx_.dev_type # kGPU) =>
        /\ EventsOf("set_stream") = {}
        /\ Cardinality(EventsOf("func")) = 1
        /\ tls[rctx.worker] = rctx.tls_before

\* C10 witness: a Run on a CPU-pinned context has returned on a worker whose
\* DEV_ID an earlier GPU task had set to 1.
C10_Witness ==
    /\ RunReturned
    /\ fn.ctx_.dev_type = kCPUPinned
    /\ Len(fn.array_handle_) = 1
    /\ rctx.tls_before = [DEV_ID |-> 1, STRM |-> NullStream]
    /\ tls[rctx.worker] = [DEV_ID |-> 1, STRM |-> NullStream]
====
